---- MODULE Spec2Model ----
(***************************************************************************)
(* grr_colab/vfs.py: VfsFile, a buffered, seekable, read-only file object  *)
(* over a remote blob that is served as a sequence of chunks starting at   *)
(* an arbitrary offset (fetch).                                            *)
(*                                                                         *)
(* The methods of VfsFile are operators on a record holding the object's   *)
(* fields; every action of Spec is one call of one method.                 *)
(* SpecLs is VFS.ls of the same file, walking a client's VFS; SpecHarness  *)
(* is the main process of grr_response_test/run_self_contained.py with its *)
(* monitor thread.                                                         *)
(***************************************************************************)
EXTENDS Integers, Sequences, FiniteSets, TLC

(* ---- bounds ---- *)
MaxLen == 3         \* the blob holds 0..MaxLen bytes
MaxChunk == 2       \* a chunk served by the source holds 1..MaxChunk bytes
MaxSeek == 2        \* seek(offset, SEEK_CUR) is called with -MaxSeek..MaxSeek
MaxNodes == 4       \* the VFS holds the paths 1..MaxNodes, path 1 being the one listed
MaxDepth == 3       \* ls is called with max_depth in -1..MaxDepth
MaxPolls == 2       \* WaitForClientToEnroll gives up after MaxPolls polls without a client

(* ---- io constants ---- *)
SEEK_SET == 0
SEEK_CUR == 1
SEEK_END == 2       \* a whence seek does not support

VARIABLES
  content,      \* the bytes of the remote blob (fixed for one behaviour)
  data,         \* self._data: the chunk iterator, as the offset of its next chunk
  buffer,       \* self._buffer
  buffer_pos,   \* self._buffer_pos
  pos,          \* self._pos
  eof,          \* self._eof
  closed,       \* self._closed
  op,           \* the last call: its name, arguments, outcome, fetch() and next() calls
  out,          \* the bytes returned by read/read1 so far, while no seek was called
  seeked,       \* whether seek was called since the file was opened
  split,        \* SpecSplit only: the sizes n, m, the stage, and the single read's bytes
  tree,         \* SpecLs only: the client's VFS as the API serves it
  walk,         \* SpecLs only: the ls call, and its result once it returned
  harness       \* SpecHarness only: the main process, its monitor thread, its subprocesses

vars ==
  <<content, data, buffer, buffer_pos, pos, eof, closed, op, out, seeked, split,
    tree, walk, harness>>

Min(a, b) == IF a < b THEN a ELSE b

\* The object's fields as one record.
Self ==
  [data |-> data, buffer |-> buffer, buffer_pos |-> buffer_pos, pos |-> pos,
   eof |-> eof, closed |-> closed]

\* Python's bytes slice b[from:from+n] of the blob (0-based), clipped at its end.
Slice(from, n) ==
  IF from < 0 \/ n <= 0 THEN << >>
  ELSE SubSeq(content, from + 1, Min(from + n, Len(content)))

(* ---- the chunk source: fetch(offset) and next(self._data) ---- *)

\* The chunk sizes an iterator standing at offset d may serve from there on: one
\* size per offset it can come to stand at. Within one call the iterator only
\* moves forward, so this covers every way of cutting the rest of the blob.
Chunkings(d) == [(IF d < 0 THEN Len(content) ELSE d)..(Len(content) - 1) -> 1..MaxChunk]

\* fetch(offset): a fresh iterator over the blob's chunks from offset on. An
\* offset below 0 is outside the source's contract: the call either raises
\* (accept = FALSE) or gives an iterator that yields nothing.
fetch(offset, accept) ==
  IF offset < 0 /\ ~accept
  THEN [raised |-> TRUE, data |-> offset]
  ELSE [raised |-> FALSE, data |-> offset]

\* Whether next(d) yields a chunk (otherwise StopIteration).
HasNext(d) == 0 <= d /\ d < Len(content)

\* The chunk next(d) yields under the chunking cs.
NextChunk(d, cs) == Slice(d, cs[d])

(* ---- VfsFile ---- *)

\* __init__ loading the first chunk (here of one byte) at construction.
init_eager ==
  [data |-> Len(Slice(0, 1)), buffer |-> Slice(0, 1), buffer_pos |-> 0, pos |-> 0,
   eof |-> FALSE, closed |-> FALSE]

\* __init__: the fields after construction.
init ==
  [data |-> fetch(0, TRUE).data, buffer |-> << >>, buffer_pos |-> 0, pos |-> 0,
   eof |-> FALSE, closed |-> FALSE]

\* The fetch() calls __init__ makes, and the chunks it pulls.
init_calls == [fetches |-> <<0>>, pulls |-> 0, nexts |-> 0]

\* _ensure_not_closed that never raises.
ensure_not_closed_never(s) == FALSE

\* _ensure_not_closed: whether it raises ValueError.
ensure_not_closed(s) == s.closed

\* _load_buffer keeping the old buffer when the iterator is exhausted.
load_buffer_keeps_buffer(s, cs) ==
  IF s.eof THEN [s |-> s, pulls |-> 0, nexts |-> 0]
  ELSE IF HasNext(s.data)
       THEN [s |-> [s EXCEPT !.buffer = NextChunk(s.data, cs),
                             !.data = s.data + Len(NextChunk(s.data, cs)),
                             !.buffer_pos = 0],
             pulls |-> 1, nexts |-> 1]
       ELSE [s |-> [s EXCEPT !.eof = TRUE, !.buffer_pos = 0],
             pulls |-> 0, nexts |-> 1]

\* _load_buffer; pulls counts the chunks obtained, nexts the next() calls.
load_buffer(s, cs) ==
  IF s.eof THEN [s |-> s, pulls |-> 0, nexts |-> 0]
  ELSE IF HasNext(s.data)
       THEN [s |-> [s EXCEPT !.buffer = NextChunk(s.data, cs),
                             !.data = s.data + Len(NextChunk(s.data, cs)),
                             !.buffer_pos = 0],
             pulls |-> 1, nexts |-> 1]
       ELSE [s |-> [s EXCEPT !.eof = TRUE, !.buffer = << >>, !.buffer_pos = 0],
             pulls |-> 0, nexts |-> 1]

\* _is_buffer_empty
is_buffer_empty(s) == s.buffer_pos = Len(s.buffer)

\* _read_from_buffer slicing the buffer from the cursor after it was advanced.
read_from_buffer_late_slice(s, size, cs) ==
  LET l == IF is_buffer_empty(s) THEN load_buffer(s, cs)
           ELSE [s |-> s, pulls |-> 0, nexts |-> 0]
      t == l.s
      available == Len(t.buffer) - t.buffer_pos
      m == Min(size, available)
      sz == IF m < 0 THEN available ELSE m
  IN [s |-> [t EXCEPT !.buffer_pos = t.buffer_pos + sz, !.pos = t.pos + sz],
      ret |-> SubSeq(t.buffer, t.buffer_pos + sz + 1,
                     Min(t.buffer_pos + sz + sz, Len(t.buffer))),
      pulls |-> l.pulls, nexts |-> l.nexts]

\* _read_from_buffer
read_from_buffer(s, size, cs) ==
  LET l == IF is_buffer_empty(s) THEN load_buffer(s, cs)
           ELSE [s |-> s, pulls |-> 0, nexts |-> 0]
      t == l.s
      available == Len(t.buffer) - t.buffer_pos
      m == Min(size, available)
      sz == IF m < 0 THEN available ELSE m
  IN [s |-> [t EXCEPT !.buffer_pos = t.buffer_pos + sz, !.pos = t.pos + sz],
      ret |-> SubSeq(t.buffer, t.buffer_pos + 1, t.buffer_pos + sz),
      pulls |-> l.pulls, nexts |-> l.nexts]

\* The result of a call: the fields after it, what it returned or raised, and the
\* calls it made on the source.
Result(s, ret, val, raised, fetches, pulls, nexts) ==
  [s |-> s, ret |-> ret, val |-> val, raised |-> raised, fetches |-> fetches,
   pulls |-> pulls, nexts |-> nexts]

Raise(s, error) == Result(s, << >>, 0, error, << >>, 0, 0)

\* close
close(s) == Result([s EXCEPT !.closed = TRUE], << >>, 0, "none", << >>, 0, 0)

\* tell
tell(s) ==
  IF ensure_not_closed(s) THEN Raise(s, "ValueError")
  ELSE Result(s, << >>, s.pos, "none", << >>, 0, 0)

\* seek with the buffer's end excluded from the range that reuses the buffer.
seek_end_excluded(s, offset, whence, accept) ==
  IF ensure_not_closed(s) THEN Raise(s, "ValueError")
  ELSE IF whence \notin {SEEK_SET, SEEK_CUR} THEN Raise(s, "UnsupportedOperation")
  ELSE
    LET new_pos == IF whence = SEEK_SET THEN offset ELSE tell(s).val + offset
        buffer_start_pos == s.pos - s.buffer_pos
        f == fetch(new_pos, accept)
    IN IF buffer_start_pos <= new_pos /\ new_pos < buffer_start_pos + Len(s.buffer)
       THEN Result([s EXCEPT !.buffer_pos = s.buffer_pos + (new_pos - s.pos),
                             !.pos = new_pos, !.eof = FALSE],
                   << >>, new_pos, "none", << >>, 0, 0)
       ELSE IF f.raised
            THEN Result(s, << >>, 0, "FetchError", <<new_pos>>, 0, 0)
            ELSE Result([s EXCEPT !.data = f.data, !.pos = new_pos, !.buffer = << >>,
                                  !.buffer_pos = 0, !.eof = FALSE],
                        << >>, new_pos, "none", <<new_pos>>, 0, 0)

\* seek fetching at the offset argument instead of the new position.
seek_fetch_offset(s, offset, whence, accept) ==
  IF ensure_not_closed(s) THEN Raise(s, "ValueError")
  ELSE IF whence \notin {SEEK_SET, SEEK_CUR} THEN Raise(s, "UnsupportedOperation")
  ELSE
    LET new_pos == IF whence = SEEK_SET THEN offset ELSE tell(s).val + offset
        buffer_start_pos == s.pos - s.buffer_pos
        f == fetch(offset, accept)
    IN IF buffer_start_pos <= new_pos /\ new_pos <= buffer_start_pos + Len(s.buffer)
       THEN Result([s EXCEPT !.buffer_pos = s.buffer_pos + (new_pos - s.pos),
                             !.pos = new_pos, !.eof = FALSE],
                   << >>, new_pos, "none", << >>, 0, 0)
       ELSE IF f.raised
            THEN Result(s, << >>, 0, "FetchError", <<offset>>, 0, 0)
            ELSE Result([s EXCEPT !.data = f.data, !.pos = new_pos, !.buffer = << >>,
                                  !.buffer_pos = 0, !.eof = FALSE],
                        << >>, new_pos, "none", <<offset>>, 0, 0)

\* seek taking any other whence as SEEK_SET.
seek_whence_default(s, offset, whence, accept) ==
  IF ensure_not_closed(s) THEN Raise(s, "ValueError")
  ELSE
    LET new_pos == IF whence = SEEK_CUR THEN tell(s).val + offset ELSE offset
        buffer_start_pos == s.pos - s.buffer_pos
        f == fetch(new_pos, accept)
    IN IF buffer_start_pos <= new_pos /\ new_pos <= buffer_start_pos + Len(s.buffer)
       THEN Result([s EXCEPT !.buffer_pos = s.buffer_pos + (new_pos - s.pos),
                             !.pos = new_pos, !.eof = FALSE],
                   << >>, new_pos, "none", << >>, 0, 0)
       ELSE IF f.raised
            THEN Result(s, << >>, 0, "FetchError", <<new_pos>>, 0, 0)
            ELSE Result([s EXCEPT !.data = f.data, !.pos = new_pos, !.buffer = << >>,
                                  !.buffer_pos = 0, !.eof = FALSE],
                        << >>, new_pos, "none", <<new_pos>>, 0, 0)

\* seek moving the position inside the buffer without moving the cursor.
seek_keeps_cursor(s, offset, whence, accept) ==
  IF ensure_not_closed(s) THEN Raise(s, "ValueError")
  ELSE IF whence \notin {SEEK_SET, SEEK_CUR} THEN Raise(s, "UnsupportedOperation")
  ELSE
    LET new_pos == IF whence = SEEK_SET THEN offset ELSE tell(s).val + offset
        buffer_start_pos == s.pos - s.buffer_pos
        f == fetch(new_pos, accept)
    IN IF buffer_start_pos <= new_pos /\ new_pos <= buffer_start_pos + Len(s.buffer)
       THEN Result([s EXCEPT !.pos = new_pos, !.eof = FALSE],
                   << >>, new_pos, "none", << >>, 0, 0)
       ELSE IF f.raised
            THEN Result(s, << >>, 0, "FetchError", <<new_pos>>, 0, 0)
            ELSE Result([s EXCEPT !.data = f.data, !.pos = new_pos, !.buffer = << >>,
                                  !.buffer_pos = 0, !.eof = FALSE],
                        << >>, new_pos, "none", <<new_pos>>, 0, 0)

\* seek
seek(s, offset, whence, accept) ==
  IF ensure_not_closed(s) THEN Raise(s, "ValueError")
  ELSE IF whence \notin {SEEK_SET, SEEK_CUR} THEN Raise(s, "UnsupportedOperation")
  ELSE
    LET new_pos == IF whence = SEEK_SET THEN offset ELSE tell(s).val + offset
        buffer_start_pos == s.pos - s.buffer_pos
        f == fetch(new_pos, accept)
    IN IF buffer_start_pos <= new_pos /\ new_pos <= buffer_start_pos + Len(s.buffer)
       THEN Result([s EXCEPT !.buffer_pos = s.buffer_pos + (new_pos - s.pos),
                             !.pos = new_pos, !.eof = FALSE],
                   << >>, new_pos, "none", << >>, 0, 0)
       ELSE IF f.raised
            THEN Result(s, << >>, 0, "FetchError", <<new_pos>>, 0, 0)
            ELSE Result([s EXCEPT !.data = f.data, !.pos = new_pos, !.buffer = << >>,
                                  !.buffer_pos = 0, !.eof = FALSE],
                        << >>, new_pos, "none", <<new_pos>>, 0, 0)

\* The while loop of read.
RECURSIVE read_loop(_, _, _, _, _, _)
read_loop(s, size, bytes, cs, pulls, nexts) ==
  IF ~s.eof /\ (size < 0 \/ Len(bytes) < size)
  THEN LET r == read_from_buffer(s, size - Len(bytes), cs)
       IN read_loop(r.s, size, bytes \o r.ret, cs, pulls + r.pulls, nexts + r.nexts)
  ELSE Result(s, bytes, 0, "none", << >>, pulls, nexts)

\* read without the check for a closed file.
read_unchecked(s, size, cs) ==
  read_loop(s, IF size = 0 THEN -1 ELSE size, << >>, cs, 0, 0)

\* read
read(s, size, cs) ==
  IF ensure_not_closed(s) THEN Raise(s, "ValueError")
  ELSE read_loop(s, IF size = 0 THEN -1 ELSE size, << >>, cs, 0, 0)

\* read1 returning buffered bytes alone whenever the buffer holds any.
read1_buffer_only(s, size, cs) ==
  IF ensure_not_closed(s) THEN Raise(s, "ValueError")
  ELSE
    LET a == read_from_buffer(s, size, cs)
    IN Result(a.s, a.ret, 0, "none", << >>, a.pulls, a.nexts)

\* read1 reading a second time whenever the first read came short.
read1_always_again(s, size, cs) ==
  IF ensure_not_closed(s) THEN Raise(s, "ValueError")
  ELSE
    LET a == read_from_buffer(s, size, cs)
        b == read_from_buffer(a.s, size - Len(a.ret), cs)
    IN IF size < 0 \/ Len(a.ret) < size
       THEN Result(b.s, a.ret \o b.ret, 0, "none", << >>, a.pulls + b.pulls,
                   a.nexts + b.nexts)
       ELSE Result(a.s, a.ret, 0, "none", << >>, a.pulls, a.nexts)

\* read1
read1(s, size, cs) ==
  IF ensure_not_closed(s) THEN Raise(s, "ValueError")
  ELSE
    LET has_data == ~is_buffer_empty(s)
        a == read_from_buffer(s, size, cs)
        b == read_from_buffer(a.s, size - Len(a.ret), cs)
    IN IF has_data /\ (size < 0 \/ Len(a.ret) < size)
       THEN Result(b.s, a.ret \o b.ret, 0, "none", << >>, a.pulls + b.pulls,
                   a.nexts + b.nexts)
       ELSE Result(a.s, a.ret, 0, "none", << >>, a.pulls, a.nexts)

\* write refusing a closed file before anything else, as read does.
write_checks_closed(s) ==
  IF ensure_not_closed(s) THEN Raise(s, "ValueError")
  ELSE Raise(s, "UnsupportedOperation")

\* write
write(s) == Raise(s, "UnsupportedOperation")

\* writelines
writelines(s) == Raise(s, "UnsupportedOperation")

\* truncate
truncate(s) == Raise(s, "UnsupportedOperation")

(* ---- the state machine ---- *)

Sizes == -1..(MaxLen + 1)
Targets == -1..(MaxLen + 1)
Offsets == -MaxSeek..MaxSeek
Whences == {SEEK_SET, SEEK_CUR, SEEK_END}
Contents == {[i \in 1..n |-> i] : n \in 0..MaxLen}

NoSplit == [stage |-> "off", n |-> 0, m |-> 0, whole |-> << >>]

Nodes == 1..MaxNodes

\* No denial of access.
NoDeny == <<"none", 0>>

NoTree ==
  [isdir |-> [n \in Nodes |-> FALSE], kids |-> [n \in Nodes |-> << >>], deny |-> NoDeny]

NoWalk ==
  [stage |-> "off", max_depth |-> 0, status |-> "none", entries |-> << >>,
   calls |-> << >>, trace |-> << >>]

NoHarness ==
  [main |-> "off", t |-> "off", processes |-> {}, p |-> "none", waited |-> 0]

\* The record of a call.
Call(name, size, offset, whence, r) ==
  [name |-> name, size |-> size, offset |-> offset, whence |-> whence,
   ret |-> r.ret, val |-> r.val, raised |-> r.raised, fetches |-> r.fetches,
   pulls |-> r.pulls, nexts |-> r.nexts]

\* The fields take the values the call left.
Becomes(s) ==
  /\ data' = s.data
  /\ buffer' = s.buffer
  /\ buffer_pos' = s.buffer_pos
  /\ pos' = s.pos
  /\ eof' = s.eof
  /\ closed' = s.closed

Opened ==
  /\ data = init.data
  /\ buffer = init.buffer
  /\ buffer_pos = init.buffer_pos
  /\ pos = init.pos
  /\ eof = init.eof
  /\ closed = init.closed
  /\ op = Call("open", 0, 0, 0,
               Result(init, << >>, 0, "none", init_calls.fetches, init_calls.pulls,
                      init_calls.nexts))
  /\ out = << >>
  /\ seeked = FALSE

Init ==
  /\ content \in Contents
  /\ Opened
  /\ split = NoSplit
  /\ tree = NoTree
  /\ walk = NoWalk
  /\ harness = NoHarness

Read ==
  \E size \in Sizes, cs \in Chunkings(data) :
    LET r == read(Self, size, cs)
    IN /\ Becomes(r.s)
       /\ op' = Call("read", size, 0, 0, r)
       /\ out' = IF seeked THEN out ELSE out \o r.ret
       /\ UNCHANGED <<content, seeked, split, tree, walk, harness>>

Read1 ==
  \E size \in Sizes, cs \in Chunkings(data) :
    LET r == read1(Self, size, cs)
    IN /\ Becomes(r.s)
       /\ op' = Call("read1", size, 0, 0, r)
       /\ out' = IF seeked THEN out ELSE out \o r.ret
       /\ UNCHANGED <<content, seeked, split, tree, walk, harness>>

\* The arguments of a seek call: those whose target stays within Targets.
SeekArgs ==
  {a \in (Targets \cup Offsets) \X Whences :
     /\ a[2] = SEEK_CUR => a[1] \in Offsets /\ pos + a[1] \in Targets
     /\ a[2] # SEEK_CUR => a[1] \in Targets}

Seek ==
  \E a \in SeekArgs, accept \in BOOLEAN :
    LET r == seek(Self, a[1], a[2], accept)
    IN /\ Becomes(r.s)
       /\ op' = Call("seek", 0, a[1], a[2], r)
       /\ out' = << >>
       /\ seeked' = TRUE
       /\ UNCHANGED <<content, split, tree, walk, harness>>

Tell ==
  LET r == tell(Self)
  IN /\ Becomes(r.s)
     /\ op' = Call("tell", 0, 0, 0, r)
     /\ UNCHANGED <<content, out, seeked, split, tree, walk, harness>>

Close ==
  LET r == close(Self)
  IN /\ Becomes(r.s)
     /\ op' = Call("close", 0, 0, 0, r)
     /\ UNCHANGED <<content, out, seeked, split, tree, walk, harness>>

Write ==
  LET r == write(Self)
  IN /\ Becomes(r.s)
     /\ op' = Call("write", 0, 0, 0, r)
     /\ UNCHANGED <<content, out, seeked, split, tree, walk, harness>>

Writelines ==
  LET r == writelines(Self)
  IN /\ Becomes(r.s)
     /\ op' = Call("writelines", 0, 0, 0, r)
     /\ UNCHANGED <<content, out, seeked, split, tree, walk, harness>>

Truncate ==
  LET r == truncate(Self)
  IN /\ Becomes(r.s)
     /\ op' = Call("truncate", 0, 0, 0, r)
     /\ UNCHANGED <<content, out, seeked, split, tree, walk, harness>>

Next == Read \/ Read1 \/ Seek \/ Tell \/ Close \/ Write \/ Writelines \/ Truncate

Spec == Init /\ [][Next]_vars

(* ---- read(n) then read(m) against one read(n + m) ---- *)

\* One file is opened and read twice, with sizes n and m; then a second file is
\* opened over the same blob and read once, with size n + m.
InitSplit ==
  /\ content \in Contents
  /\ Opened
  /\ \E n \in 0..(MaxLen + 1), m \in 0..(MaxLen + 1) :
       split = [stage |-> "first", n |-> n, m |-> m, whole |-> << >>]
  /\ tree = NoTree
  /\ walk = NoWalk
  /\ harness = NoHarness

SplitFirst ==
  /\ split.stage = "first"
  /\ \E cs \in Chunkings(data) :
       LET r == read(Self, split.n, cs)
       IN /\ Becomes(r.s)
          /\ op' = Call("read", split.n, 0, 0, r)
          /\ out' = out \o r.ret
  /\ split' = [split EXCEPT !.stage = "second"]
  /\ UNCHANGED <<content, seeked, tree, walk, harness>>

SplitSecond ==
  /\ split.stage = "second"
  /\ \E cs \in Chunkings(data) :
       LET r == read(Self, split.m, cs)
       IN /\ Becomes(r.s)
          /\ op' = Call("read", split.m, 0, 0, r)
          /\ out' = out \o r.ret
  /\ split' = [split EXCEPT !.stage = "whole"]
  /\ UNCHANGED <<content, seeked, tree, walk, harness>>

SplitWhole ==
  /\ split.stage = "whole"
  /\ \E cs \in Chunkings(init.data) :
       split' = [split EXCEPT !.stage = "done",
                              !.whole = read(init, split.n + split.m, cs).ret]
  /\ UNCHANGED <<content, data, buffer, buffer_pos, pos, eof, closed, op, out, seeked, tree, walk, harness>>

NextSplit == SplitFirst \/ SplitSecond \/ SplitWhole

SpecSplit == InitSplit /\ [][NextSplit]_vars

(* ---- VFS.ls over the client's VFS ---- *)

(* The VFS as the API serves it: tree.isdir[p] is the is_directory flag of path p,
   tree.kids[p] the paths of the stat entries ListFiles gives for p, in order (the
   stat entry of a path is written as the path), and tree.deny the one API call,
   if any, that fails with AccessForbiddenError: <<"get", p>> or <<"list", p>>. *)

RECURSIVE Ascending(_)
Ascending(S) ==
  IF S = {} THEN << >>
  ELSE LET m == CHOOSE x \in S : \A y \in S : x <= y
       IN <<m>> \o Ascending(S \ {m})

\* The children of p given the parent-child pairs E; the directory numbered loop
\* also lists path 1, itself or an ancestor of it, as its last child.
KidsOf(p, E, loop) ==
  Ascending({e[2] : e \in {x \in E : x[1] = p}}) \o (IF loop = p THEN <<1>> ELSE << >>)

Denials == {NoDeny} \cup ({"get", "list"} \X Nodes)

\* f.Get(): whether it raises AccessForbiddenError.
GetDenied(path) == tree.deny = <<"get", path>>

\* f.ListFiles(): whether it raises AccessForbiddenError.
ListDenied(path) == tree.deny = <<"list", path>>

\* What a walk does, in order: the calls of ls entered and the API calls made,
\* each with the max_depth of the ls call it belongs to.
Enter(path, max_depth) == <<"ls", path, max_depth>>

Get(path, max_depth) == <<"get", path, max_depth>>

ListFiles(path, max_depth) == <<"list", path, max_depth>>

\* The outcome of an ls call: "ok" with the entries returned, or the error raised;
\* and what the walk did.
LsResult(status, entries, trace) ==
  [status |-> status, entries |-> entries, trace |-> trace]

RECURSIVE ls(_, _), ls_loop(_, _, _, _)

\* The loop of ls absorbing every error of the recursive call.
ls_loop_absorbs_all(stat_entries, max_depth, inner_entries, trace) ==
  IF stat_entries = << >> THEN LsResult("ok", inner_entries, trace)
  ELSE LET r == ls(Head(stat_entries), max_depth - 1)
       IN ls_loop(Tail(stat_entries), max_depth,
                  inner_entries \o (IF r.status = "ok" THEN r.entries ELSE << >>),
                  trace \o r.trace)

\* The loop of ls without the except clause for NotDirectoryError.
ls_loop_no_except(stat_entries, max_depth, inner_entries, trace) ==
  IF stat_entries = << >> THEN LsResult("ok", inner_entries, trace)
  ELSE LET r == ls(Head(stat_entries), max_depth - 1)
       IN IF r.status # "ok"
          THEN LsResult(r.status, << >>, trace \o r.trace)
          ELSE ls_loop(Tail(stat_entries), max_depth, inner_entries \o r.entries,
                       trace \o r.trace)

\* The for loop of ls over the stat entries still to visit: the recursive call for
\* each, NotDirectoryError absorbed, any other error propagated.
ls_loop(stat_entries, max_depth, inner_entries, trace) ==
  IF stat_entries = << >> THEN LsResult("ok", inner_entries, trace)
  ELSE LET r == ls(Head(stat_entries), max_depth - 1)
       IN IF r.status = "ApprovalMissingError"
          THEN LsResult(r.status, << >>, trace \o r.trace)
          ELSE ls_loop(Tail(stat_entries), max_depth,
                       inner_entries
                         \o (IF r.status = "NotDirectoryError" THEN << >> ELSE r.entries),
                       trace \o r.trace)

\* ls returning the descendants before the directory's own entries.
ls_inner_first(path, max_depth) ==
  IF max_depth < 1 THEN LsResult("ok", << >>, <<Enter(path, max_depth)>>)
  ELSE IF GetDenied(path)
  THEN LsResult("ApprovalMissingError", << >>,
                <<Enter(path, max_depth), Get(path, max_depth)>>)
  ELSE IF ~tree.isdir[path]
  THEN LsResult("NotDirectoryError", << >>,
                <<Enter(path, max_depth), Get(path, max_depth)>>)
  ELSE IF ListDenied(path)
  THEN LsResult("ApprovalMissingError", << >>,
                <<Enter(path, max_depth), Get(path, max_depth),
                  ListFiles(path, max_depth)>>)
  ELSE
    LET stat_entries == tree.kids[path]
        l == ls_loop(stat_entries, max_depth, << >>,
                     <<Enter(path, max_depth), Get(path, max_depth),
                       ListFiles(path, max_depth)>>)
    IN IF l.status = "ok"
       THEN LsResult("ok", l.entries \o stat_entries, l.trace)
       ELSE l

\* ls returning at once only below depth 0.
ls_depth_below_zero(path, max_depth) ==
  IF max_depth < 0 THEN LsResult("ok", << >>, <<Enter(path, max_depth)>>)
  ELSE IF GetDenied(path)
  THEN LsResult("ApprovalMissingError", << >>,
                <<Enter(path, max_depth), Get(path, max_depth)>>)
  ELSE IF ~tree.isdir[path]
  THEN LsResult("NotDirectoryError", << >>,
                <<Enter(path, max_depth), Get(path, max_depth)>>)
  ELSE IF ListDenied(path)
  THEN LsResult("ApprovalMissingError", << >>,
                <<Enter(path, max_depth), Get(path, max_depth),
                  ListFiles(path, max_depth)>>)
  ELSE
    LET stat_entries == tree.kids[path]
        l == ls_loop(stat_entries, max_depth, << >>,
                     <<Enter(path, max_depth), Get(path, max_depth),
                       ListFiles(path, max_depth)>>)
    IN IF l.status = "ok"
       THEN LsResult("ok", stat_entries \o l.entries, l.trace)
       ELSE l

\* ls listing the files before it looks at is_directory.
ls_lists_first(path, max_depth) ==
  IF max_depth < 1 THEN LsResult("ok", << >>, <<Enter(path, max_depth)>>)
  ELSE IF GetDenied(path)
  THEN LsResult("ApprovalMissingError", << >>,
                <<Enter(path, max_depth), Get(path, max_depth)>>)
  ELSE IF ListDenied(path)
  THEN LsResult("ApprovalMissingError", << >>,
                <<Enter(path, max_depth), Get(path, max_depth),
                  ListFiles(path, max_depth)>>)
  ELSE IF ~tree.isdir[path]
  THEN LsResult("NotDirectoryError", << >>,
                <<Enter(path, max_depth), Get(path, max_depth),
                  ListFiles(path, max_depth)>>)
  ELSE
    LET stat_entries == tree.kids[path]
        l == ls_loop(stat_entries, max_depth, << >>,
                     <<Enter(path, max_depth), Get(path, max_depth),
                       ListFiles(path, max_depth)>>)
    IN IF l.status = "ok"
       THEN LsResult("ok", stat_entries \o l.entries, l.trace)
       ELSE l

\* ls looking at max_depth only after it asked the API for the path.
ls_depth_after_get(path, max_depth) ==
  IF GetDenied(path)
  THEN LsResult("ApprovalMissingError", << >>,
                <<Enter(path, max_depth), Get(path, max_depth)>>)
  ELSE IF ~tree.isdir[path]
  THEN LsResult("NotDirectoryError", << >>,
                <<Enter(path, max_depth), Get(path, max_depth)>>)
  ELSE IF max_depth < 1
  THEN LsResult("ok", << >>, <<Enter(path, max_depth), Get(path, max_depth)>>)
  ELSE IF ListDenied(path)
  THEN LsResult("ApprovalMissingError", << >>,
                <<Enter(path, max_depth), Get(path, max_depth),
                  ListFiles(path, max_depth)>>)
  ELSE
    LET stat_entries == tree.kids[path]
        l == ls_loop(stat_entries, max_depth, << >>,
                     <<Enter(path, max_depth), Get(path, max_depth),
                       ListFiles(path, max_depth)>>)
    IN IF l.status = "ok"
       THEN LsResult("ok", stat_entries \o l.entries, l.trace)
       ELSE l

\* VFS.ls
ls(path, max_depth) ==
  IF max_depth < 1 THEN LsResult("ok", << >>, <<Enter(path, max_depth)>>)
  ELSE IF GetDenied(path)
  THEN LsResult("ApprovalMissingError", << >>,
                <<Enter(path, max_depth), Get(path, max_depth)>>)
  ELSE IF ~tree.isdir[path]
  THEN LsResult("NotDirectoryError", << >>,
                <<Enter(path, max_depth), Get(path, max_depth)>>)
  ELSE IF ListDenied(path)
  THEN LsResult("ApprovalMissingError", << >>,
                <<Enter(path, max_depth), Get(path, max_depth),
                  ListFiles(path, max_depth)>>)
  ELSE
    LET stat_entries == tree.kids[path]
        l == ls_loop(stat_entries, max_depth, << >>,
                     <<Enter(path, max_depth), Get(path, max_depth),
                       ListFiles(path, max_depth)>>)
    IN IF l.status = "ok"
       THEN LsResult("ok", stat_entries \o l.entries, l.trace)
       ELSE l

\* The API calls of a walk, in order, each as the call and its path.
RECURSIVE ApiCalls(_)
ApiCalls(trace) ==
  IF trace = << >> THEN << >>
  ELSE (IF Head(trace)[1] = "ls" THEN << >> ELSE <<<<Head(trace)[1], Head(trace)[2]>>>>)
         \o ApiCalls(Tail(trace))

Pairs == {e \in Nodes \X Nodes : e[1] < e[2]}

\* Path 1 is listed, with a max_depth of -1..MaxDepth, in a VFS whose directories
\* hold any paths numbered above them, in ascending order.
InitLs ==
  /\ content = << >>
  /\ Opened
  /\ split = NoSplit
  /\ harness = NoHarness
  /\ \E d \in [Nodes -> BOOLEAN] :
       \E E \in SUBSET {e \in Pairs : d[e[1]]} :
         \E loop \in {0} \cup {n \in Nodes : d[n]}, deny \in Denials :
           tree = [isdir |-> d, kids |-> [p \in Nodes |-> KidsOf(p, E, loop)],
                   deny |-> deny]
  /\ \E max_depth \in (-1)..MaxDepth :
       walk = [stage |-> "call", max_depth |-> max_depth, status |-> "none",
               entries |-> << >>, calls |-> << >>, trace |-> << >>]

Ls ==
  /\ walk.stage = "call"
  /\ LET r == ls(1, walk.max_depth)
     IN walk' = [walk EXCEPT !.stage = "done", !.status = r.status,
                             !.entries = r.entries, !.calls = ApiCalls(r.trace),
                             !.trace = r.trace]
  /\ UNCHANGED <<content, data, buffer, buffer_pos, pos, eof, closed, op, out, seeked,
                 split, tree, harness>>

NextLs == Ls

SpecLs == InitLs /\ [][NextLs]_vars

(* ---- run_self_contained.py: the main process and its monitor thread ---- *)

(* harness.main is where the main thread of the main process stands: "enroll"
   (in WaitForClientToEnroll), "join" (in p.join() on RunEndToEndTests),
   "succeeded" (main returned) or "failed" (main raised); in the last two the
   process has ended, and its daemon thread and daemon subprocesses with it.
   harness.t is the thread running DieIfSubProcessDies, harness.processes the
   monitored processes that are alive, harness.p the RunEndToEndTests process,
   harness.waited the polls WaitForClientToEnroll made without finding a client. *)

\* The processes handed to DieIfSubProcessDies.
Components == {"AdminUI", "Frontend", "Worker", "Client"}

\* One pass of the loop of DieIfSubProcessDies, run in the thread t: sys.exit(1)
\* raises SystemExit in the calling thread, which ends that thread and nothing
\* else; with every process alive the thread sleeps.
DieIfSubProcessDies(h) ==
  IF h.processes # Components THEN [h EXCEPT !.t = "exited"] ELSE h

\* One pass of the loop of WaitForClientToEnroll: the time is up, or the API gave
\* a ConnectionError or no client, or it gave a client.
WaitForClientToEnroll(h, answer) ==
  IF h.waited >= MaxPolls THEN [h EXCEPT !.main = "failed"]
  ELSE IF answer = "client" THEN [h EXCEPT !.main = "join", !.p = "alive"]
  ELSE [h EXCEPT !.waited = h.waited + 1]

\* What the API can answer: it is served by the AdminUI process.
Answers(h) ==
  IF "AdminUI" \in h.processes THEN {"ConnectionError", "none", "client"}
  ELSE {"ConnectionError"}

\* main after p.join() returned: the exit code of RunEndToEndTests decides.
join(h) ==
  IF h.p = "exited 0" THEN [h EXCEPT !.main = "succeeded"]
  ELSE [h EXCEPT !.main = "failed"]

\* main has started the four processes and the monitor thread.
InitHarness ==
  /\ content = << >>
  /\ Opened
  /\ split = NoSplit
  /\ tree = NoTree
  /\ walk = NoWalk
  /\ harness = [main |-> "enroll", t |-> "running", processes |-> Components,
                p |-> "none", waited |-> 0]

Running == harness.main \in {"enroll", "join"}

Unchanged ==
  UNCHANGED <<content, data, buffer, buffer_pos, pos, eof, closed, op, out, seeked,
              split, tree, walk>>

\* A monitored process dies.
Die ==
  /\ Running
  /\ \E q \in harness.processes :
       harness' = [harness EXCEPT !.processes = harness.processes \ {q}]
  /\ Unchanged

\* The monitor thread looks at the processes.
Monitor ==
  /\ Running
  /\ harness.t = "running"
  /\ harness' = DieIfSubProcessDies(harness)
  /\ Unchanged

\* The main thread polls for the client.
Enroll ==
  /\ harness.main = "enroll"
  /\ \E answer \in Answers(harness) :
       harness' = WaitForClientToEnroll(harness, answer)
  /\ Unchanged

\* The RunEndToEndTests process exits.
TestsExit ==
  /\ harness.main = "join"
  /\ harness.p = "alive"
  /\ \E code \in {"exited 0", "exited 1"} : harness' = [harness EXCEPT !.p = code]
  /\ Unchanged

\* p.join() returns.
Join ==
  /\ harness.main = "join"
  /\ harness.p # "alive"
  /\ harness' = join(harness)
  /\ Unchanged

NextHarness == Die \/ Monitor \/ Enroll \/ TestsExit \/ Join

SpecHarness == InitHarness /\ [][NextHarness]_vars

(* ---- claims ---- *)

\* C1: on a freshly opened file, whatever the chunks served and whatever the sizes
\* read, the bytes returned by the reads made before any seek, concatenated, are
\* the blob's bytes from offset 0 on, in order, none skipped or repeated, and the
\* position is their number.
C1_ReadsReturnPrefix ==
  ~seeked => (out = Slice(0, Len(out)) /\ Len(out) <= Len(content) /\ pos = Len(out))

\* C1 witness: a read that followed an earlier read, crossed a chunk boundary and
\* returned bytes of two chunks.
C1_Witness ==
  /\ ~seeked
  /\ op.name = "read"
  /\ op.pulls >= 2
  /\ Len(op.ret) >= 2
  /\ Len(out) > Len(op.ret)

\* C2: read(n) then read(m) on a freshly opened file return together the bytes a
\* single read(n + m) on another freshly opened file over the same blob returns,
\* for all sizes n, m >= 0, 0 included.
C2_SplitEqualsWhole ==
  split.stage = "done" => out = split.whole

\* C3: read(n) with n >= 0 returns at most n bytes, and fewer than n only when the
\* end of the blob was reached during the call.
C3_ReadAtMostN ==
  (op.name = "read" /\ op.raised = "none" /\ op.size >= 0)
    => (Len(op.ret) <= op.size /\ (Len(op.ret) < op.size => eof))

(* A step that is a call of seek on an open file with a supported whence, seen
   from the state before it; and the absolute position it asks for. *)
SeekTarget == IF op'.whence = SEEK_SET THEN op'.offset ELSE pos + op'.offset

IsSeekStep == ~closed /\ op'.name = "seek" /\ op'.whence \in {SEEK_SET, SEEK_CUR}

\* Whether position t lies in the buffer's range, both ends included.
InBuffer(t) == pos - buffer_pos <= t /\ t <= pos - buffer_pos + Len(buffer)

\* C4: a seek on an open file whose target lies in
\* [pos - buffer_pos, pos - buffer_pos + len(buffer)], both ends included, calls
\* fetch not at all, leaves the buffer, its start and the iterator as they are and
\* sets the position to the target (so a second such seek finds the same range).
C4_SeekInBufferReuses ==
  [][(IsSeekStep /\ InBuffer(SeekTarget))
       => /\ op'.raised = "none"
          /\ op'.fetches = << >>
          /\ buffer' = buffer
          /\ data' = data
          /\ pos' = SeekTarget
          /\ op'.val = SeekTarget
          /\ pos' - buffer_pos' = pos - buffer_pos]_vars

\* C4 witness: a seek forward that landed exactly on the end of a non-empty
\* buffer and called fetch not at all.
C4_Witness ==
  /\ op.name = "seek"
  /\ op.whence = SEEK_CUR
  /\ op.offset > 0
  /\ op.raised = "none"
  /\ op.fetches = << >>
  /\ Len(buffer) > 0
  /\ buffer_pos = Len(buffer)

\* C5 as stated: a seek to a target outside the buffer's range calls fetch not
\* during the seek (the call is left to the next read).
C5_SeekOutsideFetchesLater ==
  [][(IsSeekStep /\ ~InBuffer(SeekTarget)) => op'.fetches = << >>]_vars

\* C5, amended: a seek to a target outside the buffer's range calls fetch exactly
\* once, with the target, during the seek itself, and pulls no chunk; unless fetch
\* raised, the position is the target, the buffer is empty and the new iterator
\* stands untouched at the target. No call other than read/read1 pulls a chunk,
\* and read/read1 never call fetch.
C5_SeekOutsideFetchesOnce ==
  [][/\ (IsSeekStep /\ ~InBuffer(SeekTarget))
          => /\ op'.fetches = <<SeekTarget>>
             /\ op'.pulls = 0 /\ op'.nexts = 0
             /\ op'.raised = "none"
                  => (pos' = SeekTarget /\ buffer' = << >> /\ data' = SeekTarget)
     /\ op'.name \notin {"read", "read1"} => (op'.pulls = 0 /\ op'.nexts = 0)
     /\ op'.name \in {"read", "read1"} => op'.fetches = << >>]_vars

\* C5 witness: a seek relative to the current position that left the buffer's
\* range and called fetch with the new position.
C5_Witness ==
  /\ op.name = "seek"
  /\ op.whence = SEEK_CUR
  /\ op.raised = "none"
  /\ pos > 0
  /\ pos # op.offset
  /\ op.fetches = <<pos>>
  /\ buffer = << >>
  /\ data = pos

\* C6 as stated: opening the file calls fetch not at all.
C6_OpenFetchesNothing ==
  op.name = "open" => op.fetches = << >>

\* C6, amended: opening the file sets the position to 0, the buffer empty and the
\* file not closed, calls fetch exactly once, with offset 0, and pulls no chunk:
\* the iterator stands untouched at offset 0, and only read/read1 pull chunks.
C6_OpenFetchesOncePullsNothing ==
  /\ op.name = "open"
       => /\ pos = 0 /\ buffer = << >> /\ buffer_pos = 0 /\ ~closed /\ ~eof
          /\ data = 0
          /\ op.fetches = <<0>>
          /\ op.pulls = 0 /\ op.nexts = 0
  /\ op.name \notin {"read", "read1"} => (op.pulls = 0 /\ op.nexts = 0)

\* C6 witness: the file just opened over a blob that has bytes to pull.
C6_Witness ==
  op.name = "open" /\ Len(content) > 0 /\ op.fetches = <<0>>

\* C7 as stated: tell() after close() does not fail and returns the position.
C7_TellAfterCloseReturns ==
  (closed /\ op.name = "tell") => (op.raised = "none" /\ op.val = pos)

\* C7, amended: tell() after close() fails with ValueError; the position the file
\* holds stays the one it had before close().
C7_TellAfterCloseRaises ==
  [][closed => (pos' = pos /\ (op'.name = "tell" => op'.raised = "ValueError"))]_vars

\* C7 witness: tell() called on a file closed after bytes were read.
C7_Witness ==
  closed /\ op.name = "tell" /\ pos > 0 /\ op.raised = "ValueError"

\* C8: once the file is closed it stays closed; read, read1 and seek then fail
\* with ValueError, whatever their arguments, call neither fetch nor next, and
\* leave position, buffer, cursor, iterator and eof as they are.
C8_ClosedFileRefuses ==
  [][closed
       => /\ closed'
          /\ UNCHANGED <<data, buffer, buffer_pos, pos, eof>>
          /\ op'.name \in {"read", "read1", "seek"}
               => /\ op'.raised = "ValueError"
                  /\ op'.fetches = << >>
                  /\ op'.pulls = 0 /\ op'.nexts = 0
                  /\ op'.ret = << >>]_vars

\* C8 witness: a read refused on a closed file whose buffer still holds unread
\* bytes.
C8_Witness ==
  closed /\ op.name = "read" /\ op.raised = "ValueError" /\ buffer_pos < Len(buffer)

(* A step that is a call of read1 on an open file, and the unread bytes of the
   buffer before it. *)
IsRead1Step == ~closed /\ op'.name = "read1"

Unread == SubSeq(buffer, buffer_pos + 1, Len(buffer))

\* C9 as stated: read1 called with unread bytes in the buffer returns bytes of that
\* buffer only and pulls no chunk from the source, whatever n.
C9_Read1BufferOnly ==
  [][(IsRead1Step /\ Unread # << >>)
       => /\ op'.pulls = 0
          /\ data' = data
          /\ Len(op'.ret) <= Len(Unread)
          /\ op'.ret = SubSeq(Unread, 1, Len(op'.ret))]_vars

\* C9, amended: read1(n) called with unread bytes in the buffer returns bytes of
\* that buffer only and asks the source for nothing when 0 <= n <= the number of
\* unread bytes; when n < 0 or n is larger, it returns all the unread bytes and
\* calls next() on the source exactly once, appending the bytes it takes from the
\* chunk obtained (all of it when n < 0, at most the rest of n otherwise).
C9_Read1RefillsAfterBuffer ==
  [][(IsRead1Step /\ Unread # << >>)
       => IF 0 <= op'.size /\ op'.size <= Len(Unread)
          THEN /\ op'.pulls = 0 /\ op'.nexts = 0
               /\ data' = data /\ buffer' = buffer
               /\ op'.ret = SubSeq(Unread, 1, op'.size)
          ELSE /\ op'.nexts = 1
               /\ op'.pulls <= 1
               /\ op'.ret = Unread \o SubSeq(buffer', 1, buffer_pos')
               /\ op'.pulls = 1 => (buffer' = Slice(data, Len(buffer')) /\ buffer' # << >>)
               /\ op'.size < 0 => buffer_pos' = Len(buffer')
               /\ op'.size >= 0
                    => buffer_pos' = Min(op'.size - Len(Unread), Len(buffer'))]_vars

\* C9 witness: a read1 that returned the unread rest of the old buffer followed by
\* bytes of a chunk it pulled.
C9_Witness ==
  /\ op.name = "read1"
  /\ op.pulls = 1
  /\ buffer_pos > 0
  /\ Len(op.ret) > buffer_pos

\* C10: a read1(n) on an open file pulls at most one chunk (calls next() at most
\* once), returns at most n bytes when n >= 0, returns the blob's bytes that start
\* at the position held before the call, and advances the position by the number
\* of bytes returned.
C10_Read1OneChunk ==
  [][IsRead1Step
       => /\ op'.raised = "none"
          /\ op'.pulls <= 1 /\ op'.nexts <= 1
          /\ op'.size >= 0 => Len(op'.ret) <= op'.size
          /\ op'.ret = Slice(pos, Len(op'.ret))
          /\ pos' = pos + Len(op'.ret)]_vars

\* C10 witness: a read1 after a seek that pulled one chunk and returned bytes from
\* the middle of the blob.
C10_Witness ==
  /\ op.name = "read1"
  /\ seeked
  /\ op.pulls = 1
  /\ Len(op.ret) >= 1
  /\ pos > Len(op.ret)

\* C11: seek on an open file with a whence other than SEEK_SET and SEEK_CUR fails
\* with UnsupportedOperation, calls fetch not at all and leaves position, buffer,
\* cursor, iterator and eof as they are.
C11_SeekBadWhenceRefused ==
  [][(~closed /\ op'.name = "seek" /\ op'.whence \notin {SEEK_SET, SEEK_CUR})
       => /\ op'.raised = "UnsupportedOperation"
          /\ op'.fetches = << >>
          /\ op'.pulls = 0 /\ op'.nexts = 0
          /\ UNCHANGED <<data, buffer, buffer_pos, pos, eof, closed>>]_vars

\* C11 witness: a seek with an unsupported whence, refused at the end of the blob
\* (eof set, which a supported seek would clear), its offset not the position.
C11_Witness ==
  /\ ~closed
  /\ op.name = "seek"
  /\ op.whence = SEEK_END
  /\ op.raised = "UnsupportedOperation"
  /\ op.offset # pos
  /\ eof

\* C12: write, writelines and truncate fail with UnsupportedOperation in every
\* state of the file, closed or not, and leave all of its fields as they are.
C12_WritesRefused ==
  [][op'.name \in {"write", "writelines", "truncate"}
       => /\ op'.raised = "UnsupportedOperation"
          /\ op'.fetches = << >>
          /\ op'.pulls = 0 /\ op'.nexts = 0
          /\ UNCHANGED <<data, buffer, buffer_pos, pos, eof, closed>>]_vars

\* C12 witness: a write refused on a file that was read and then closed.
C12_Witness ==
  /\ closed
  /\ op.name = "write"
  /\ op.raised = "UnsupportedOperation"
  /\ pos > 0

\* C18: the position is never negative, whatever was read and whatever offsets,
\* negative ones included, were sought.
C18_PositionNonNegative ==
  pos >= 0

\* C19: the cursor stays within the buffer, 0 <= buffer_pos <= len(buffer), and
\* the buffer is empty whenever eof is set.
C19_CursorInBuffer ==
  /\ 0 <= buffer_pos
  /\ buffer_pos <= Len(buffer)
  /\ eof => buffer = << >>

\* C19 witness: the end of the blob reached by reading after a seek, the last
\* chunk dropped from the buffer.
C19_Witness ==
  /\ eof
  /\ seeked
  /\ op.name \in {"read", "read1"}
  /\ op.pulls >= 1
  /\ buffer = << >>
  /\ pos = Len(content)

\* C20: while the position is not negative, the buffer holds exactly the blob's
\* bytes [pos - buffer_pos, pos - buffer_pos + len(buffer)) and the iterator
\* stands right after them; a read(n) with n > 0 at position p >= 0 returns
\* content[p : min(p + n, L)] and leaves the position at p plus the number of
\* bytes returned, also after eof was set and a seek cleared it.
C20_ReadReturnsContentAtPosition ==
  /\ [](pos >= 0 => /\ buffer = Slice(pos - buffer_pos, Len(buffer))
                     /\ pos - buffer_pos >= 0
                     /\ data = pos - buffer_pos + Len(buffer))
  /\ [][(~closed /\ op'.name = "read" /\ op'.size > 0 /\ pos >= 0)
          => /\ op'.raised = "none"
             /\ op'.ret = Slice(pos, op'.size)
             /\ pos' = pos + Len(op'.ret)
             /\ tell(Self').val = pos + Len(op'.ret)]_vars

\* C20 witness: after a seek, a read that started inside the blob, pulled a chunk
\* and returned bytes of it, leaving a part of the chunk in the buffer.
C20_Witness ==
  /\ op.name = "read"
  /\ seeked
  /\ op.size > 0
  /\ op.pulls >= 1
  /\ Len(op.ret) >= 1
  /\ pos > Len(op.ret)
  /\ buffer_pos < Len(buffer)

(* The ls call has returned or raised; the API calls it made, as a set. *)
LsDone == walk.stage = "done"

LsCalled == {walk.calls[i] : i \in 1..Len(walk.calls)}

\* The listing as C13 defines it: the children's entries in provider order, then,
\* in child order, the listing one level less deep of each child that is a
\* directory.
RECURSIVE Listing(_, _), ListingOfEach(_, _)
Listing(path, depth) ==
  IF depth < 1 THEN << >>
  ELSE tree.kids[path] \o ListingOfEach(tree.kids[path], depth - 1)

ListingOfEach(children, depth) ==
  IF children = << >> THEN << >>
  ELSE (IF tree.isdir[Head(children)] THEN Listing(Head(children), depth) ELSE << >>)
         \o ListingOfEach(Tail(children), depth)

\* C13: for max_depth >= 1, ls on a directory returns, whenever it returns, the
\* children's stat entries in provider order followed by the concatenation, in
\* child order, of ls(child, max_depth - 1) of every child that is a directory;
\* and it does return when no access is denied.
C13_LsIsRecursiveListing ==
  (LsDone /\ walk.max_depth >= 1)
    => /\ walk.status = "ok" => walk.entries = Listing(1, walk.max_depth)
       /\ (tree.isdir[1] /\ tree.deny = NoDeny) => walk.status = "ok"

\* C13 witness: children [2 (file), 3 (directory)], 3 holding the file 4, listed
\* with max_depth 2: the result is <<2, 3, 4>>.
C13_Witness ==
  /\ LsDone
  /\ walk.max_depth = 2
  /\ tree.kids[1] = <<2, 3>>
  /\ ~tree.isdir[2] /\ tree.isdir[3] /\ ~tree.isdir[4]
  /\ tree.kids[3] = <<4>>
  /\ walk.status = "ok"
  /\ walk.entries = <<2, 3, 4>>

\* C14: an API call that is denied access, at any depth, is the last call the walk
\* makes and makes ls fail with ApprovalMissingError, with no entries returned;
\* ls fails so only through such a call.
C14_DenialAbortsWalk ==
  LsDone
    => /\ \A i \in 1..Len(walk.calls) :
            walk.calls[i] = tree.deny
              => (i = Len(walk.calls) /\ walk.status = "ApprovalMissingError")
       /\ walk.status = "ApprovalMissingError"
            => /\ walk.entries = << >>
               /\ walk.calls # << >>
               /\ walk.calls[Len(walk.calls)] = tree.deny

\* C14 witness: access denied on the first of two children, below the top level;
\* the second child, a directory, is never asked for.
C14_Witness ==
  /\ LsDone
  /\ walk.status = "ApprovalMissingError"
  /\ Len(tree.kids[1]) >= 2
  /\ tree.deny[2] = tree.kids[1][1]
  /\ tree.isdir[tree.kids[1][2]]
  /\ <<"get", tree.kids[1][2]>> \notin LsCalled

\* C15: ls on a directory never fails with NotDirectoryError; with max_depth > 1,
\* when it returns, every child's own entry is in the result, every child was
\* asked for, a plain file among them stopping nothing: every child that is a
\* directory, also after a plain file, was listed and its entries are in the
\* result.
C15_FileChildAbsorbed ==
  (LsDone /\ walk.max_depth > 1 /\ tree.isdir[1] /\ ~GetDenied(1))
    => /\ walk.status # "NotDirectoryError"
       /\ tree.deny = NoDeny => walk.status = "ok"
       /\ walk.status = "ok"
            => /\ SubSeq(walk.entries, 1, Len(tree.kids[1])) = tree.kids[1]
               /\ \A i \in 1..Len(tree.kids[1]) :
                    LET c == tree.kids[1][i]
                    IN /\ <<"get", c>> \in LsCalled
                       /\ tree.isdir[c]
                            => /\ <<"list", c>> \in LsCalled
                               /\ \A j \in 1..Len(tree.kids[c]) :
                                    \E k \in (Len(tree.kids[1]) + 1)..Len(walk.entries) :
                                      walk.entries[k] = tree.kids[c][j]
                       /\ ~tree.isdir[c] => <<"list", c>> \notin LsCalled

\* C15 witness: a plain file listed before two directories that hold entries,
\* walked three levels deep.
C15_Witness ==
  /\ LsDone
  /\ walk.max_depth = 3
  /\ walk.status = "ok"
  /\ tree.kids[1] = <<2, 3>>
  /\ ~tree.isdir[2] /\ tree.isdir[3] /\ tree.isdir[4]
  /\ tree.kids[3] = <<4>>
  /\ tree.kids[4] = <<1>>
  /\ Len(walk.entries) > 3

\* C16: ls with max_depth 1 on a directory returns exactly the children's entries
\* in provider order and asks the API for the directory alone, never for a child;
\* ls with max_depth < 1 returns no entries and makes no API call, also when the
\* path is no directory or access to it is denied.
C16_DepthOneAndBelow ==
  LsDone
    => /\ walk.max_depth = 1
            => /\ (tree.isdir[1] /\ ~GetDenied(1) /\ ~ListDenied(1))
                    => walk.status = "ok"
               /\ walk.status = "ok"
                    => /\ walk.entries = tree.kids[1]
                       /\ walk.calls = <<<<"get", 1>>, <<"list", 1>>>>
       /\ walk.max_depth < 1
            => (walk.status = "ok" /\ walk.entries = << >> /\ walk.calls = << >>)

\* C16 witness: max_depth 1 on a directory whose children are a plain file and a
\* directory that holds entries.
C16_Witness ==
  /\ LsDone
  /\ walk.max_depth = 1
  /\ walk.status = "ok"
  /\ Len(tree.kids[1]) = 2
  /\ ~tree.isdir[tree.kids[1][1]]
  /\ tree.isdir[tree.kids[1][2]]
  /\ tree.kids[tree.kids[1][2]] # << >>
  /\ walk.entries = tree.kids[1]

\* C17: for max_depth >= 1, ls on a path that resolves to a non-directory fails
\* with NotDirectoryError after the one Get call, without ListFiles and without
\* entries.
C17_TopLevelNotDirectory ==
  (LsDone /\ walk.max_depth >= 1 /\ ~tree.isdir[1] /\ ~GetDenied(1))
    => /\ walk.status = "NotDirectoryError"
       /\ walk.entries = << >>
       /\ walk.calls = <<<<"get", 1>>>>

\* C17 witness: a plain file listed with max_depth 2, access to its listing
\* denied had it been asked for.
C17_Witness ==
  /\ LsDone
  /\ walk.max_depth = 2
  /\ ~tree.isdir[1]
  /\ tree.deny = <<"list", 1>>
  /\ walk.status = "NotDirectoryError"

\* The paths reached from path 1 through exactly k child steps.
RECURSIVE ReachedIn(_)
ReachedIn(k) ==
  IF k = 0 THEN {1}
  ELSE UNION {{tree.kids[p][i] : i \in 1..Len(tree.kids[p])} :
                p \in {q \in ReachedIn(k - 1) : tree.isdir[q]}}

\* The number of paths a walk can come to through at most k child steps when a
\* directory holds at most MaxNodes children: 1 + MaxNodes + ... + MaxNodes^k.
RECURSIVE WalksWithin(_)
WalksWithin(k) == IF k < 1 THEN 1 ELSE 1 + MaxNodes * WalksWithin(k - 1)

\* C21: on every VFS graph, also one where a directory lists path 1, itself or
\* an ancestor of it, as a child, the ls call returns or raises, having entered
\* ls a bounded number of times. A call of ls entered with max_depth m stands
\* walk.max_depth - m child steps below path 1, on a path reached through that
\* many steps; no call of ls stands more than max_depth steps below path 1 (the
\* one call being at 0 steps when max_depth < 1), and every Get and ListFiles is
\* made by a call standing fewer than max_depth steps below it.
C21_WalkBoundedByDepth ==
  /\ walk.stage = "call"
       => ls(1, walk.max_depth).status
            \in {"ok", "ApprovalMissingError", "NotDirectoryError"}
  /\ LsDone
       => /\ Len(walk.trace) <= 3 * WalksWithin(walk.max_depth)
          /\ \A i \in 1..Len(walk.trace) :
               LET e == walk.trace[i]
                   steps == walk.max_depth - e[3]
               IN /\ steps >= 0
                  /\ e[2] \in ReachedIn(steps)
                  /\ steps <= (IF walk.max_depth < 1 THEN 0 ELSE walk.max_depth)
                  /\ e[1] \in {"get", "list"} => steps < walk.max_depth

\* C21 witness: path 1 holds the directory 2 alone, which lists path 1 as its
\* child; listed with max_depth 3 the walk goes 1, 2, 1 and returns from the call
\* for 2 entered three steps down, which asks the API for nothing.
C21_Witness ==
  /\ LsDone
  /\ walk.max_depth = 3
  /\ tree.isdir[1] /\ tree.isdir[2]
  /\ tree.kids[1] = <<2>>
  /\ tree.kids[2] = <<1>>
  /\ walk.status = "ok"
  /\ walk.entries = <<2, 1, 2>>
  /\ walk.trace[Len(walk.trace)] = Enter(2, 0)
  /\ walk.calls = <<<<"get", 1>>, <<"list", 1>>, <<"get", 2>>, <<"list", 2>>,
                    <<"get", 1>>, <<"list", 1>>>>

\* C22 as stated: while the main process runs with the monitor thread started,
\* the death of a monitored process ends the main process: the main thread is
\* never left waiting for the enrollment or for the test run with the monitor
\* thread ended.
C22_DeathEndsMainProcess ==
  harness.t = "exited" => harness.main \notin {"enroll", "join"}

====
